---- MODULE Spec2Model ----
(***************************************************************************)
(* The archive metadata pipeline of src/src/file_extractor.py:             *)
(*   - the filename parser (parse_archive_filename, ArchiveInfo.to_dict)   *)
(*   - the JSON metadata store (save_archive_info, _save_archive_info_dict)*)
(*   - extract_file, which parses an archive's name, records it, tries    *)
(*     the passwords and records a successful extraction                   *)
(* with download_with_retry of src/src/file_downloader.py and, of          *)
(* src/src/build_html.py, get_update_date and build_statistics.            *)
(* Specifications: SpecParse (the parser alone), Spec (the store, one      *)
(* caller), SpecConc (the store, two callers), SpecMain (the command line's*)
(* parse and save), SpecExtract (extract_file runs), SpecForeign (the store*)
(* over JSON of another shape), SpecRetry (download_with_retry), SpecBuild *)
(* (get_update_date beside the store) and SpecStats (build_statistics).    *)
(*                                                                         *)
(* A Python str is a sequence of characters; a character is a one-letter   *)
(* TLA+ string, and a character outside ASCII is written by its code point *)
(* ("U+533F").  A dict is a function from its keys to its values.          *)
(***************************************************************************)
EXTENDS Integers, Sequences, FiniteSets, TLC

VARIABLES
    fname,          \* parser: the filename string handed to parse_archive_filename
    stage,          \* parser: "input", "parsed" or "dict" ("off": not run)
    archive_info,   \* parser: what parse_archive_filename returned
    info_dict,      \* parser: what ArchiveInfo.to_dict returned (or raised)
    disk,           \* store: the file logs/archive_info.json
    pc,             \* store: pc[p], where caller p stands inside its call
    op,             \* store: op[p], the function caller p is running
    arg,            \* store: arg[p], its argument
    existing_data,  \* store: existing_data[p], the list held in memory
    ret,            \* store: ret[p], how p's last call ended
    failed_at,      \* store: failed_at[p], the step of p's last call that failed
    disk0,          \* store: disk0[p], the file as it was when p's call began
                    \*        and, once p has read it, as p found it
    read_error,     \* store: read_error[p], the exception p's read of the file raised
    now,            \* the clock read by datetime.now()
    faults,         \* number of I/O failures the environment has injected
    libc_pads_year, \* platform: strftime('%Y') pads the year to four digits
    archive,        \* extract_file: the archive file archive_path names
    xpc,            \* extract_file: where the run stands
    passwords_to_try, \* extract_file: the passwords not tried yet
    xret,           \* extract_file: how the last run ended
    log,            \* extract_file: what the run has done so far, in order
    max_retries,    \* download_with_retry: download.max_retries of the configuration
    allowed,        \* download_with_retry: the file type of filename is allowed
    attempt,        \* download_with_retry: the loop variable
    slept,          \* download_with_retry: the seconds of each time.sleep, in order
    results,        \* download_with_retry: how each call of download_file ended, in order
    dpc,            \* download_with_retry: where the call stands
    dret,           \* download_with_retry: how the call ended
    update_date,    \* builder: what get_update_date returned
    builder_read,   \* builder: the store file as get_update_date found it
    teachers,       \* builder: self.teachers
    statistics      \* builder: self.statistics

vars == <<fname, stage, archive_info, info_dict, disk, pc, op, arg,
          existing_data, ret, failed_at, disk0, read_error, now, faults,
          libc_pads_year, archive, xpc, passwords_to_try, xret, log,
          max_retries, allowed, attempt, slept, results, dpc, dret,
          update_date, builder_read, teachers, statistics>>

parseVars == <<fname, stage, archive_info, info_dict, libc_pads_year>>
extractVars == <<archive, xpc, passwords_to_try, xret, log>>
retryVars == <<max_retries, allowed, attempt, slept, results, dpc, dret>>
builderVars == <<update_date, builder_read, teachers, statistics>>
toolVars == <<retryVars, builderVars>>
storeVars == <<disk, pc, op, arg, existing_data, ret, failed_at, disk0, read_error,
               now, faults>>

(***************************************************************************)
(* Bounds of the model.                                                    *)
(***************************************************************************)
\* number of single-character edits applied to a well-formed filename
MaxEdits == 1
\* number of store calls in one run
MaxCalls == 3
\* number of I/O failures in one run
MaxFaults == 1

(***************************************************************************)
(* Characters and strings.                                                 *)
(***************************************************************************)
ASCII_DIGITS == <<"0", "1", "2", "3", "4", "5", "6", "7", "8", "9">>

AsciiDigit(c) == \E i \in 1..Len(ASCII_DIGITS) : ASCII_DIGITS[i] = c

\* ARABIC-INDIC DIGIT THREE, a decimal digit (category Nd) outside ASCII
ARABIC_THREE == "U+0663"

\* \d of a str pattern: any Unicode decimal digit
IsDigit(c) == AsciiDigit(c) \/ c = ARABIC_THREE

\* int() of one decimal digit
DigitVal(c) ==
    IF c = ARABIC_THREE THEN 3
    ELSE (CHOOSE i \in 1..Len(ASCII_DIGITS) : ASCII_DIGITS[i] = c) - 1

\* a character class [lo-hi] of ASCII digits
InRange(c, lo, hi) == AsciiDigit(c) /\ DigitVal(c) \in lo..hi

\* the character classes of the pattern: \d, [^_] and [^.]
InClass(c, class) ==
    IF class = "\\d" THEN IsDigit(c)
    ELSE IF class = "[^_]" THEN c # "_"
    ELSE c # "."

\* a greedy quantifier: the last index of the longest run of characters of
\* the class that starts at index i (i - 1 when the run is empty)
Span(s, i, class) ==
    CHOOSE j \in (i - 1)..Len(s) :
        /\ \A k \in i..j : InClass(s[k], class)
        /\ j = Len(s) \/ ~InClass(s[j + 1], class)

RECURSIVE ToInt(_)
\* int(s) for a string of decimal digits
ToInt(s) ==
    IF Len(s) = 0 THEN 0
    ELSE 10 * ToInt(SubSeq(s, 1, Len(s) - 1)) + DigitVal(s[Len(s)])

RECURSIVE IntToStr(_)
\* the decimal digits of n >= 0, without padding
IntToStr(n) ==
    IF n < 10 THEN <<ASCII_DIGITS[n + 1]>>
    ELSE IntToStr(n \div 10) \o <<ASCII_DIGITS[(n % 10) + 1]>>

RECURSIVE ZeroPad(_, _)
\* s padded on the left with "0" to at least w characters
ZeroPad(s, w) == IF Len(s) >= w THEN s ELSE ZeroPad(<<"0">> \o s, w)

PREFIX == <<"c", "h", "a", "l", "a", "o", "s", "h", "i", "_", "c", "s", "v">>

DOT_ZIP == <<".", "z", "i", "p">>

FORUM == <<"h", "t", "t", "p", "s", ":", "/", "/", "c", "c", "9", "8", ".", "o", "r", "g", "/">>

\* the prefix of the rendered author id
ANON == <<"U+533F", "U+540D">>

None == [none |-> TRUE]

ValueError == [raised |-> "ValueError"]

(***************************************************************************)
(* datetime.strptime(date_str, "%Y%m%d") and strftime("%Y-%m-%d").         *)
(***************************************************************************)
\* the alternatives of (?P<m>1[0-2]|0[1-9]|[1-9]) that match at index i,
\* in the order the regex engine tries them, each given by its length
MonthAlts(s, i) ==
    (IF i + 1 <= Len(s) /\ s[i] = "1" /\ InRange(s[i + 1], 0, 2) THEN <<2>> ELSE <<>>)
    \o (IF i + 1 <= Len(s) /\ s[i] = "0" /\ InRange(s[i + 1], 1, 9) THEN <<2>> ELSE <<>>)
    \o (IF i <= Len(s) /\ InRange(s[i], 1, 9) THEN <<1>> ELSE <<>>)

\* the alternatives of (?P<d>3[0-1]|[1-2]\d|0[1-9]|[1-9]| [1-9]) that match at i
DayAlts(s, i) ==
    (IF i + 1 <= Len(s) /\ s[i] = "3" /\ InRange(s[i + 1], 0, 1) THEN <<2>> ELSE <<>>)
    \o (IF i + 1 <= Len(s) /\ InRange(s[i], 1, 2) /\ IsDigit(s[i + 1]) THEN <<2>> ELSE <<>>)
    \o (IF i + 1 <= Len(s) /\ s[i] = "0" /\ InRange(s[i + 1], 1, 9) THEN <<2>> ELSE <<>>)
    \o (IF i <= Len(s) /\ InRange(s[i], 1, 9) THEN <<1>> ELSE <<>>)
    \o (IF i + 1 <= Len(s) /\ s[i] = " " /\ InRange(s[i + 1], 1, 9) THEN <<2>> ELSE <<>>)

IsLeap(y) == (y % 4 = 0) /\ ((y % 100 # 0) \/ (y % 400 = 0))

DaysInMonth(y, m) ==
    IF m = 2 THEN (IF IsLeap(y) THEN 29 ELSE 28)
    ELSE IF m \in {4, 6, 9, 11} THEN 30 ELSE 31

\* MakeDate without the length of the month: any day up to 31 passes
MakeDateAnyMonthLength(y, m, d) ==
    IF y >= 1 /\ y <= 9999 /\ m \in 1..12 /\ d >= 1 /\ d <= 31
    THEN [year |-> y, month |-> m, day |-> d]
    ELSE ValueError

\* datetime(y, m, d): the date, or ValueError outside MINYEAR..MAXYEAR or
\* past the end of the month
MakeDate(y, m, d) ==
    IF y >= 1 /\ y <= 9999 /\ m \in 1..12 /\ d >= 1 /\ d <= DaysInMonth(y, m)
    THEN [year |-> y, month |-> m, day |-> d]
    ELSE ValueError

\* datetime.strptime(s, "%Y%m%d"): the first match of
\* (?P<Y>\d\d\d\d)(?P<m>...)(?P<d>...) from the start of s, which must
\* then cover all of s
Strptime(s) ==
    LET yearOk == Len(s) >= 4 /\ \A k \in 1..4 : IsDigit(s[k])
        months == SelectSeq(MonthAlts(s, 5), LAMBDA ml : Len(DayAlts(s, 5 + ml)) > 0)
        ml     == months[1]
        dl     == DayAlts(s, 5 + ml)[1]
    IN  IF ~yearOk \/ Len(months) = 0 THEN ValueError
        ELSE IF 4 + ml + dl # Len(s) THEN ValueError
        ELSE MakeDate(ToInt(SubSeq(s, 1, 4)),
                      ToInt(SubSeq(s, 5, 4 + ml)),
                      ToInt(SubSeq(s, 5 + ml, 4 + ml + dl)))

\* date.strftime("%Y-%m-%d").  %m and %d are two digits wide; the width of
\* %Y is the C library's: four digits where it pads, the bare number where
\* it does not (glibc)
Strftime(d, pads_year) ==
    (IF pads_year THEN ZeroPad(IntToStr(d.year), 4) ELSE IntToStr(d.year))
    \o <<"-">> \o ZeroPad(IntToStr(d.month), 2)
    \o <<"-">> \o ZeroPad(IntToStr(d.day), 2)

(***************************************************************************)
(* parse_archive_filename.                                                 *)
(***************************************************************************)
NoMatch == [matched |-> FALSE]

\* re.match(r'^chalaoshi_csv(\d{8})_(\d+)_(\d+)_([^_]+)_([^.]+)\.zip$', s).
\* Every quantified class is followed by a character outside the class, so
\* the greedy run is the only way to match and backtracking adds nothing.
\* Without re.MULTILINE, $ matches at the end of the string and also just
\* before a newline that ends the string.
ReMatch(s) ==
    LET n  == Len(s)
        p0 == Len(PREFIX)
        d1 == p0 + 8
        a1 == Span(s, d1 + 2, "\\d")
        b1 == Span(s, a1 + 2, "\\d")
        c1 == Span(s, b1 + 2, "[^_]")
        e1 == Span(s, c1 + 2, "[^.]")
        tail == SubSeq(s, e1 + 1, n)
    IN  IF /\ n >= d1 + 1
           /\ SubSeq(s, 1, p0) = PREFIX
           /\ \A k \in (p0 + 1)..d1 : IsDigit(s[k])
           /\ s[d1 + 1] = "_"
           /\ a1 >= d1 + 2 /\ a1 < n /\ s[a1 + 1] = "_"
           /\ b1 >= a1 + 2 /\ b1 < n /\ s[b1 + 1] = "_"
           /\ c1 >= b1 + 2 /\ c1 < n /\ s[c1 + 1] = "_"
           /\ e1 >= c1 + 2
           /\ tail = DOT_ZIP \/ tail = DOT_ZIP \o <<"\n">>
        THEN [matched |-> TRUE,
              groups  |-> <<SubSeq(s, p0 + 1, d1), SubSeq(s, d1 + 2, a1),
                            SubSeq(s, a1 + 2, b1), SubSeq(s, b1 + 2, c1),
                            SubSeq(s, c1 + 2, e1)>>]
        ELSE NoMatch

\* the ArchiveInfo dataclass
ArchiveInfo(filename, date_str, post_id, floor_number, author_id, encryption_method) ==
    [filename |-> filename, date_str |-> date_str, post_id |-> post_id,
     floor_number |-> floor_number, author_id |-> author_id,
     encryption_method |-> encryption_method]

\* parse_archive_filename without the except clause around strptime
parse_archive_filename_uncaught(filename) ==
    LET match == ReMatch(filename)
        g     == match.groups
    IN  IF ~match.matched THEN None
        ELSE IF Strptime(g[1]) = ValueError THEN ValueError
        ELSE ArchiveInfo(filename, g[1], g[2], g[3], g[4], g[5])

\* parse_archive_filename without the strptime check
parse_archive_filename_any_date(filename) ==
    LET match == ReMatch(filename)
        g     == match.groups
    IN  IF ~match.matched THEN None
        ELSE ArchiveInfo(filename, g[1], g[2], g[3], g[4], g[5])

parse_archive_filename(filename) ==
    LET match == ReMatch(filename)
        g     == match.groups
    IN  IF ~match.matched THEN None
        ELSE IF Strptime(g[1]) = ValueError THEN None
        ELSE ArchiveInfo(filename, g[1], g[2], g[3], g[4], g[5])

\* to_dict with the author id left as it is in the filename
to_dict_bare_author(info, pads_year) ==
    LET date      == Strptime(info.date_str)
        forum_url == FORUM \o info.post_id \o <<"/">>
    IN  IF date = ValueError THEN ValueError
        ELSE [filename             |-> info.filename,
              date_str             |-> info.date_str,
              date_formatted       |-> Strftime(date, pads_year),
              post_id              |-> info.post_id,
              floor_number         |-> info.floor_number,
              author_id            |-> info.author_id,
              encryption_method    |-> info.encryption_method,
              forum_url            |-> forum_url,
              password_description |-> forum_url]

\* ArchiveInfo.to_dict; the date property raises ValueError when date_str is
\* no date (an ArchiveInfo built directly, not by the parser)
to_dict(info, pads_year) ==
    LET date      == Strptime(info.date_str)
        forum_url == FORUM \o info.post_id \o <<"/">>
    IN  IF date = ValueError THEN ValueError
        ELSE [filename             |-> info.filename,
              date_str             |-> info.date_str,
              date_formatted       |-> Strftime(date, pads_year),
              post_id              |-> info.post_id,
              floor_number         |-> info.floor_number,
              author_id            |-> ANON \o info.author_id,
              encryption_method    |-> info.encryption_method,
              forum_url            |-> forum_url,
              password_description |->
                  forum_url \o <<" ", "U+4E2D", " ">> \o info.floor_number
                  \o <<"U+697C", " ", "U+533F", "U+540D">> \o info.author_id
                  \o <<" ", "U+53D1", "U+8868", "U+5185", "U+5BB9", "U+7684">>
                  \o info.encryption_method \o <<"U+54C8", "U+5E0C">>]

(***************************************************************************)
(* The filenames the parser is run on.                                     *)
(***************************************************************************)
\* the filename the naming rule puts together from its five parts
NameOf(date_str, post_id, floor_number, author_id, encryption_method) ==
    PREFIX \o date_str \o <<"_">> \o post_id \o <<"_">> \o floor_number
    \o <<"_">> \o author_id \o <<"_">> \o encryption_method \o DOT_ZIP

\* chalaoshi_csv20250502_5399305_2696_26893D_sha256.zip
EXAMPLE_DATE == <<"2", "0", "2", "5", "0", "5", "0", "2">>

EXAMPLE_POST == <<"5", "3", "9", "9", "3", "0", "5">>

EXAMPLE_FLOOR == <<"2", "6", "9", "6">>

EXAMPLE_AUTHOR == <<"2", "6", "8", "9", "3", "D">>

EXAMPLE_METHOD == <<"s", "h", "a", "2", "5", "6">>

EXAMPLE_NAME == NameOf(EXAMPLE_DATE, EXAMPLE_POST, EXAMPLE_FLOOR, EXAMPLE_AUTHOR, EXAMPLE_METHOD)

Years == {<<"0", "0", "0", "0">>, <<"0", "0", "0", "1">>, <<"0", "9", "9", "9">>,
          <<"1", "9", "0", "0">>, <<"2", "0", "0", "0">>, <<"2", "0", "2", "4">>,
          <<"2", "0", "2", "5">>, <<"9", "9", "9", "9">>, <<"2", "0", "2", "U+0663">>}

Months == {<<"0", "0">>, <<"0", "1">>, <<"0", "2">>, <<"0", "4">>, <<"1", "2">>,
           <<"1", "3">>, <<"9", "9">>}

Days == {<<"0", "0">>, <<"0", "1">>, <<"2", "8">>, <<"2", "9">>, <<"3", "0">>,
         <<"3", "1">>, <<"3", "2">>, <<"9", "9">>, <<"1", "U+0663">>}

\* every date group, in an otherwise fixed filename
DateInputs ==
    {NameOf(y \o m \o d, EXAMPLE_POST, EXAMPLE_FLOOR, EXAMPLE_AUTHOR, EXAMPLE_METHOD) :
        y \in Years, m \in Months, d \in Days}

\* the other four groups, with a fixed date
PartInputs ==
    {NameOf(EXAMPLE_DATE, p, f, a, e) :
        p \in {EXAMPLE_POST, <<"1">>, <<"5", "U+0663">>},
        f \in {EXAMPLE_FLOOR, <<"2">>},
        a \in {EXAMPLE_AUTHOR, <<"a">>, <<"a", ".", "b">>},
        e \in {EXAMPLE_METHOD, <<"s">>, <<"s", "_", "t">>}}

EditChars == {"x", "_", ".", "\n"}

\* s with one character inserted, deleted or replaced
EditsOf(s) ==
    {SubSeq(s, 1, i) \o <<c>> \o SubSeq(s, i + 1, Len(s)) : i \in 0..Len(s), c \in EditChars}
    \cup {SubSeq(s, 1, i - 1) \o SubSeq(s, i + 1, Len(s)) : i \in 1..Len(s)}
    \cup {SubSeq(s, 1, i - 1) \o <<c>> \o SubSeq(s, i + 1, Len(s)) : i \in 1..Len(s), c \in EditChars}

RECURSIVE Edited(_, _)
\* the strings at most n edits away from a string of S
Edited(S, n) ==
    IF n = 0 THEN S ELSE Edited(S \cup UNION {EditsOf(s) : s \in S}, n - 1)

SHORT_NAME == NameOf(EXAMPLE_DATE, <<"1">>, <<"2">>, <<"a">>, <<"s">>)

\* the filenames parsed: the dates, the parts, and a well-formed name with
\* at most n edits
ParseInputs(n) == DateInputs \cup PartInputs \cup Edited({SHORT_NAME}, n)

(***************************************************************************)
(* The store's state while the parser runs, and the parser's while the     *)
(* store runs.                                                             *)
(***************************************************************************)
Procs == {1, 2}

Absent == [kind |-> "absent", data |-> <<>>]

StoreIdle ==
    /\ disk = Absent
    /\ pc = [p \in Procs |-> "idle"]
    /\ op = [p \in Procs |-> "none"]
    /\ arg = [p \in Procs |-> None]
    /\ existing_data = [p \in Procs |-> <<>>]
    /\ ret = [p \in Procs |-> "none"]
    /\ failed_at = [p \in Procs |-> "none"]
    /\ disk0 = [p \in Procs |-> Absent]
    /\ read_error = [p \in Procs |-> "none"]
    /\ now = 0
    /\ faults = 0

ParserIdle ==
    /\ fname = <<>>
    /\ stage = "off"
    /\ archive_info = None
    /\ info_dict = None
    /\ libc_pads_year \in BOOLEAN

NoArchive == [name |-> <<>>, exists |-> FALSE, opens_with |-> {}]

ExtractIdle ==
    /\ archive = NoArchive
    /\ xpc = "idle"
    /\ passwords_to_try = <<>>
    /\ xret = "none"
    /\ log = <<>>

(***************************************************************************)
(* The parser's runs: a filename is parsed, and a parsed one rendered.     *)
(***************************************************************************)
\* no download is under way
RetryIdle ==
    /\ max_retries = 0
    /\ allowed = TRUE
    /\ attempt = 0
    /\ slept = <<>>
    /\ results = <<>>
    /\ dpc = "idle"
    /\ dret = "none"

\* the builder has not run
BuilderIdle ==
    /\ update_date = <<>>
    /\ builder_read = [file |-> Absent, io_error |-> FALSE]
    /\ teachers = <<>>
    /\ statistics = None

ToolsIdle == RetryIdle /\ BuilderIdle

InitParse ==
    /\ fname \in ParseInputs(MaxEdits)
    /\ stage = "input"
    /\ archive_info = None
    /\ info_dict = None
    /\ libc_pads_year \in BOOLEAN
    /\ StoreIdle
    /\ ExtractIdle
    /\ ToolsIdle

ParseFilename ==
    /\ stage = "input"
    /\ archive_info' = parse_archive_filename(fname)
    /\ stage' = "parsed"
    /\ UNCHANGED <<fname, info_dict, libc_pads_year>>
    /\ UNCHANGED storeVars
    /\ UNCHANGED extractVars
    /\ UNCHANGED toolVars

RenderDict ==
    /\ stage = "parsed"
    /\ archive_info # None
    /\ info_dict' = to_dict(archive_info, libc_pads_year)
    /\ stage' = "dict"
    /\ UNCHANGED <<fname, archive_info, libc_pads_year>>
    /\ UNCHANGED storeVars
    /\ UNCHANGED extractVars
    /\ UNCHANGED toolVars

NextParse == ParseFilename \/ RenderDict

SpecParse == InitParse /\ [][NextParse]_vars

(***************************************************************************)
(* The metadata store: the file logs/archive_info.json.                    *)
(*   absent       no such file                                             *)
(*   list         a JSON array of objects, data                            *)
(*   garbage      text that is not JSON                                    *)
(*   badutf8      bytes that are not UTF-8                                 *)
(*   truncated    left by open(.., 'w') (no bytes) or by a dump that       *)
(*                failed between two characters: not JSON                  *)
(*   cut_in_char  left by a dump that failed inside a multi-byte           *)
(*                character: not UTF-8                                     *)
(***************************************************************************)
File(kind, data) == [kind |-> kind, data |-> data]

EmptyList == File("list", <<>>)

\* d[k] = v
Put(d, k, v) == [x \in DOMAIN d \cup {k} |-> IF x = k THEN v ELSE d[x]]

\* datetime.isoformat() of the clock reading t
IsoFormat(t) == <<"T">> \o IntToStr(t)

EXTRACT_DIR == <<"e", "x", "t", "r", "a", "c", "t", "e", "d">>

\* ExtractedDict from a dict whose author id has no prefix
ExtractedDictBareAuthor(info, pads_year, t) ==
    LET d == to_dict_bare_author(info, pads_year)
    IN  Put(Put(Put(d, "extracted", TRUE), "extract_dir", EXTRACT_DIR),
            "extraction_time", IsoFormat(t))

\* ExtractedDict without the extraction time
ExtractedDictNoTime(info, pads_year, t) ==
    LET d == to_dict(info, pads_year)
    IN  Put(Put(d, "extracted", TRUE), "extract_dir", EXTRACT_DIR)

\* the dict extract_file hands to _save_archive_info_dict
ExtractedDict(info, pads_year, t) ==
    LET d == to_dict(info, pads_year)
    IN  Put(Put(Put(d, "extracted", TRUE), "extract_dir", EXTRACT_DIR),
            "extraction_time", IsoFormat(t))

\* record.get('filename') == filename, for the first such record: its index,
\* or 0 when the loop ends without a break
FindRecord(data, filename) ==
    LET hits == {i \in 1..Len(data) :
                    "filename" \in DOMAIN data[i] /\ data[i].filename = filename}
    IN  IF hits = {} THEN 0 ELSE CHOOSE i \in hits : \A j \in hits : i <= j

\* Upsert without the scan: the record is always appended
UpsertAlwaysAppend(data, new_record) == Append(data, new_record)

\* Upsert that leaves a record it finds as it is
UpsertKeepFound(data, new_record) ==
    LET i == FindRecord(data, new_record.filename)
    IN  IF i # 0 THEN data ELSE Append(data, new_record)

\* Upsert that drops the record it finds and appends the new one
UpsertMoveToEnd(data, new_record) ==
    LET i == FindRecord(data, new_record.filename)
    IN  IF i # 0
        THEN Append(SubSeq(data, 1, i - 1) \o SubSeq(data, i + 1, Len(data)), new_record)
        ELSE Append(data, new_record)

\* Upsert that forgets the list it was given
UpsertReplaceAll(data, new_record) == <<new_record>>

\* Upsert that leaves the list as it is
UpsertDropNew(data, new_record) == data

\* replace the record found, or append
Upsert(data, new_record) ==
    LET i == FindRecord(data, new_record.filename)
    IN  IF i # 0 THEN [data EXCEPT ![i] = new_record]
        ELSE Append(data, new_record)

\* NewRecord that marks the record as extracted from the start
NewRecordMarked(info, pads_year, t) ==
    LET d == to_dict(info, pads_year)
    IN  IF d = ValueError THEN ValueError
        ELSE Put(Put(d, "updated_at", IsoFormat(t)), "extracted", TRUE)

\* the record save_archive_info stores for archive_info, or ValueError
NewRecord(info, pads_year, t) ==
    LET d == to_dict(info, pads_year)
    IN  IF d = ValueError THEN ValueError
        ELSE Put(d, "updated_at", IsoFormat(t))

(***************************************************************************)
(* json.dump(.., ensure_ascii=False) and json.load.  The text of a JSON    *)
(* string is written as the sequence of its items: a character as it is,   *)
(* or the escape that stands for it.                                       *)
(***************************************************************************)
\* a lone surrogate, as os.listdir gives for a byte that is not UTF-8; the
\* utf-8 file cannot take it
SURROGATE == "U+DCFF"

\* json.dump that writes every character as it is
EscapeNothing(c) == c

\* the item json.dump writes for the character c of a str
EscapeChar(c) ==
    IF c = "\"" THEN "\\\""
    ELSE IF c = "\\" THEN "\\\\"
    ELSE IF c = "\n" THEN "\\n"
    ELSE c

\* the character json.load reads from an item
UnescapeItem(x) ==
    IF x = "\\\"" THEN "\""
    ELSE IF x = "\\\\" THEN "\\"
    ELSE IF x = "\\n" THEN "\n"
    ELSE x

\* an item json.load rejects inside a string: a bare control character,
\* quote or backslash
BadItem(x) == x \in {"\n", "\"", "\\"}

\* an element of the loaded list that is no dict: the int 5
FIVE == [number |-> 5]

\* the element of the list in memory is a dict
IsDict(x) == "number" \notin DOMAIN x

\* the element of the list in the file is a JSON object
IsObject(x) == "json" \notin DOMAIN x

\* the record as json.dump writes it: a str as a JSON string, a bool as
\* true or false; an int as a number
JsonDumpRecord(record) ==
    IF ~IsDict(record) THEN [json |-> "number"]
    ELSE
    [k \in DOMAIN record |->
        IF k = "extracted"
        THEN [json |-> IF record[k] THEN "true" ELSE "false"]
        ELSE [json |-> "string",
              text |-> [j \in 1..Len(record[k]) |-> EscapeChar(record[k][j])]]]

JsonDump(data) == [i \in 1..Len(data) |-> JsonDumpRecord(data[i])]

\* the record json.load builds from the text of an object
JsonLoadRecord(object) ==
    IF ~IsObject(object) THEN FIVE
    ELSE
    [k \in DOMAIN object |->
        IF object[k].json = "string"
        THEN [j \in 1..Len(object[k].text) |-> UnescapeItem(object[k].text[j])]
        ELSE object[k].json = "true"]

JsonLoad(text) == [i \in 1..Len(text) |-> JsonLoadRecord(text[i])]

\* the text of the list holds a string json.load rejects
Malformed(text) ==
    \E i \in 1..Len(text) : \E k \in DOMAIN text[i] :
        /\ IsObject(text[i])
        /\ text[i][k].json = "string"
        /\ \E j \in 1..Len(text[i][k].text) : BadItem(text[i][k].text[j])

\* every str of the list can be written to a utf-8 file
Encodable(data) ==
    \A i \in 1..Len(data) : \A k \in DOMAIN data[i] \ {"extracted", "number"} :
        \A j \in 1..Len(data[i][k]) : data[i][k][j] # SURROGATE

\* json.load raises JSONDecodeError
NotJson(f) ==
    \/ f.kind \in {"garbage", "truncated"}
    \/ f.kind = "list" /\ Malformed(f.data)

\* f.read() raises UnicodeDecodeError
NotUtf8(f) == f.kind \in {"badutf8", "cut_in_char"}

(***************************************************************************)
(* The records the store is called with.                                   *)
(***************************************************************************)
OTHER_NAME == NameOf(<<"0", "9", "9", "9", "0", "1", "0", "1">>, <<"3">>, <<"4">>, <<"b">>, <<"m">>)

\* what the parser returns for two filenames
ParsedPool == {parse_archive_filename(SHORT_NAME), parse_archive_filename(OTHER_NAME)}

\* an ArchiveInfo built for a filename already parsed, with other field values
REBUILT == ArchiveInfo(SHORT_NAME, <<"2", "0", "2", "4", "0", "2", "2", "9">>,
                       <<"7">>, <<"8">>, <<"c">>, <<"t">>)

\* an ArchiveInfo whose date_str is no date
UNDATED == ArchiveInfo(OTHER_NAME, <<"2", "0", "2", "5", "0", "2", "3", "1">>,
                       <<"3">>, <<"4">>, <<"b">>, <<"m">>)

InfoPool == ParsedPool \cup {REBUILT, UNDATED}

(***************************************************************************)
(* save_archive_info and _save_archive_info_dict, step by step.            *)
(***************************************************************************)
Return(p, value, step) ==
    /\ pc' = [pc EXCEPT ![p] = "idle"]
    /\ ret' = [ret EXCEPT ![p] = value]
    /\ failed_at' = [failed_at EXCEPT ![p] = step]
    /\ existing_data' = [existing_data EXCEPT ![p] = <<>>]

\* the call, up to output_path_obj.parent.mkdir(parents=True, exist_ok=True),
\* which stands before the try block
Enter(p, o, a) ==
    /\ pc[p] = "idle"
    /\ now' = now + 1
    /\ op' = [op EXCEPT ![p] = o]
    /\ arg' = [arg EXCEPT ![p] = a]
    /\ disk0' = [disk0 EXCEPT ![p] = disk]
    /\ read_error' = [read_error EXCEPT ![p] = "none"]
    /\ \/ /\ pc' = [pc EXCEPT ![p] = "load"]
          /\ ret' = [ret EXCEPT ![p] = "running"]
          /\ failed_at' = [failed_at EXCEPT ![p] = "none"]
          /\ UNCHANGED <<existing_data, faults>>
       \/ /\ faults < MaxFaults
          /\ faults' = faults + 1
          /\ Return(p, "raised", "mkdir")
    /\ UNCHANGED disk

\* a call made on its own, not from extract_file
Call(p, o, a) ==
    /\ now < MaxCalls
    /\ Enter(p, o, a)
    /\ UNCHANGED parseVars
    /\ UNCHANGED extractVars
    /\ UNCHANGED toolVars

\* the list in memory after the read, or the exception the read raises
\* the inner except clause catches (json.JSONDecodeError, IOError) only
Loaded(f, io_error) ==
    IF f.kind = "absent" THEN [error |-> "none", data |-> <<>>]
    ELSE IF io_error THEN [error |-> "IOError", data |-> <<>>]
    ELSE IF NotUtf8(f) THEN [error |-> "UnicodeDecodeError", data |-> <<>>]
    ELSE IF NotJson(f) THEN [error |-> "JSONDecodeError", data |-> <<>>]
    ELSE [error |-> "none", data |-> JsonLoad(f.data)]

\* a scan that takes any loaded value as a list of dicts
ScanNeverRaises(f, data, filename) == FALSE

\* the scan of lines 188-191 raises, or the append after it: the loaded
\* value is a dict or an int, or the loop comes to an element without .get
\* before it has found the filename
ScanRaises(f, data, filename) ==
    \/ f.kind \in {"object", "number"}
    \/ \E i \in 1..Len(data) :
        /\ ~IsDict(data[i])
        /\ \A j \in 1..(i - 1) : data[j].filename # filename

\* read the existing data, scan it, replace or append in memory
Load(p) ==
    /\ pc[p] = "load"
    /\ \E io_error \in BOOLEAN :
        LET read == Loaded(disk, io_error)
            data == read.data
            rec  == IF op[p] = "save_archive_info"
                    THEN NewRecord(arg[p], libc_pads_year, now)
                    ELSE arg[p]
        IN  /\ io_error => disk.kind # "absent" /\ faults < MaxFaults
            /\ faults' = IF io_error THEN faults + 1 ELSE faults
            /\ read_error' = [read_error EXCEPT ![p] = read.error]
            /\ disk0' = [disk0 EXCEPT ![p] = disk]
            /\ IF read.error = "UnicodeDecodeError" THEN Return(p, "False", "read")
               ELSE IF read.error = "none" /\ ScanRaises(disk, data, arg[p].filename)
                    THEN Return(p, "False", "scan")
               ELSE IF rec = ValueError THEN Return(p, "False", "to_dict")
               ELSE /\ existing_data' = [existing_data EXCEPT ![p] = Upsert(data, rec)]
                    /\ pc' = [pc EXCEPT ![p] = "open"]
                    /\ UNCHANGED <<ret, failed_at>>
    /\ UNCHANGED <<disk, op, arg, now>>
    /\ UNCHANGED parseVars
    /\ UNCHANGED extractVars
    /\ UNCHANGED toolVars

\* open(output_path_obj, 'w'): the file is emptied, or the open fails
OpenWrite(p) ==
    /\ pc[p] = "open"
    /\ \/ /\ disk' = File("truncated", <<>>)
          /\ pc' = [pc EXCEPT ![p] = "dump"]
          /\ UNCHANGED <<ret, failed_at, existing_data, faults>>
       \/ /\ faults < MaxFaults
          /\ faults' = faults + 1
          /\ Return(p, "False", "open")
          /\ UNCHANGED disk
    /\ UNCHANGED <<op, arg, disk0, read_error, now>>
    /\ UNCHANGED parseVars
    /\ UNCHANGED extractVars
    /\ UNCHANGED toolVars

\* json.dump(existing_data, f, ensure_ascii=False, indent=2) and the close
Dump(p) ==
    /\ pc[p] = "dump"
    /\ \/ /\ Encodable(existing_data[p])
          /\ disk' = File("list", JsonDump(existing_data[p]))
          /\ Return(p, "True", "none")
          /\ UNCHANGED faults
       \/ /\ ~Encodable(existing_data[p])
          /\ disk' = File("truncated", <<>>)
          /\ Return(p, "False", "dump")
          /\ UNCHANGED faults
       \/ /\ faults < MaxFaults
          /\ faults' = faults + 1
          /\ \E k \in {"truncated", "cut_in_char"} : disk' = File(k, <<>>)
          /\ Return(p, "False", "dump")
    /\ UNCHANGED <<op, arg, disk0, read_error, now>>
    /\ UNCHANGED parseVars
    /\ UNCHANGED extractVars
    /\ UNCHANGED toolVars

(***************************************************************************)
(* The store used by one caller at a time.                                 *)
(***************************************************************************)
Init ==
    /\ ParserIdle
    /\ ExtractIdle
    /\ ToolsIdle
    /\ disk \in {Absent, EmptyList, File("garbage", <<>>), File("badutf8", <<>>)}
    /\ pc = [p \in Procs |-> "idle"]
    /\ op = [p \in Procs |-> "none"]
    /\ arg = [p \in Procs |-> None]
    /\ existing_data = [p \in Procs |-> <<>>]
    /\ ret = [p \in Procs |-> "none"]
    /\ failed_at = [p \in Procs |-> "none"]
    /\ disk0 = [p \in Procs |-> Absent]
    /\ read_error = [p \in Procs |-> "none"]
    /\ now = 0
    /\ faults = 0

SaveArchiveInfo == \E info \in InfoPool : Call(1, "save_archive_info", info)

SaveArchiveInfoDict ==
    \E info \in ParsedPool :
        Call(1, "_save_archive_info_dict", ExtractedDict(info, libc_pads_year, now + 1))

Next ==
    \/ SaveArchiveInfo
    \/ SaveArchiveInfoDict
    \/ Load(1)
    \/ OpenWrite(1)
    \/ Dump(1)

Spec == Init /\ [][Next]_vars

(***************************************************************************)
(* main --parse-filename: the filename given is parsed and, when it        *)
(* parses, handed to save_archive_info.  The filenames here hold the       *)
(* characters json.dump does not write as they are.                        *)
(***************************************************************************)
UNPARSED_NAME == <<"n", ".", "z", "i", "p">>

\* a name of the right shape whose date is no day of the calendar
BAD_DATE_NAME == NameOf(<<"2", "0", "2", "5", "0", "2", "3", "1">>, <<"1">>, <<"2">>, <<"a">>, <<"s">>)

NEWLINE_NAME == SHORT_NAME \o <<"\n">>

QUOTED_NAME == NameOf(EXAMPLE_DATE, <<"1">>, <<"2">>, <<"\"", "b", "\\">>, <<"m">>)

SURROGATE_NAME == NameOf(EXAMPLE_DATE, <<"1">>, <<"2">>, <<SURROGATE>>, <<"s">>)

ArgvPool == {SHORT_NAME, NEWLINE_NAME, QUOTED_NAME, SURROGATE_NAME, UNPARSED_NAME}

ParseAndSave ==
    \E filename \in ArgvPool :
        /\ parse_archive_filename(filename) # None
        /\ Call(1, "save_archive_info", parse_archive_filename(filename))

NextMain == ParseAndSave \/ Load(1) \/ OpenWrite(1) \/ Dump(1)

SpecMain == Init /\ [][NextMain]_vars

(***************************************************************************)
(* The store used by two callers at once: nothing orders the steps of one  *)
(* call with those of the other.                                           *)
(***************************************************************************)
\* the archive each caller works on
ArchiveOf(p) == IF p = 1 THEN SHORT_NAME ELSE OTHER_NAME

CallAny == \E p \in Procs : Call(p, "save_archive_info", parse_archive_filename(ArchiveOf(p)))

LoadAny == \E p \in Procs : Load(p)

OpenWriteAny == \E p \in Procs : OpenWrite(p)

DumpAny == \E p \in Procs : Dump(p)

NextConc == CallAny \/ LoadAny \/ OpenWriteAny \/ DumpAny

SpecConc == Init /\ [][NextConc]_vars

(***************************************************************************)
(* extract_file: one archive is parsed, recorded, extracted and, when the  *)
(* extraction succeeds, recorded again as extracted.                       *)
(***************************************************************************)
UPPERCASE == <<"A", "B", "C", "D", "E", "F", "G", "H", "I", "J", "K", "L", "M",
               "N", "O", "P", "Q", "R", "S", "T", "U", "V", "W", "X", "Y", "Z">>

LOWERCASE == <<"a", "b", "c", "d", "e", "f", "g", "h", "i", "j", "k", "l", "m",
               "n", "o", "p", "q", "r", "s", "t", "u", "v", "w", "x", "y", "z">>

\* str.lower(), on the characters of the model
Lower(s) ==
    [k \in 1..Len(s) |->
        IF \E i \in 1..26 : UPPERCASE[i] = s[k]
        THEN LOWERCASE[CHOOSE i \in 1..26 : UPPERCASE[i] = s[k]]
        ELSE s[k]]

\* the places of the dots of name that PurePath.suffixes splits at: the dots
\* after the leading ones, none when the name ends with a dot
SuffixDots(name) ==
    IF name = <<>> \/ name[Len(name)] = "." THEN {}
    ELSE {i \in 2..Len(name) : name[i] = "." /\ \E j \in 1..(i - 1) : name[j] # "."}

\* PurePath.suffix
Suffix(name) ==
    LET dots == {i \in 2..(Len(name) - 1) : name[i] = "."}
    IN  IF dots = {} THEN <<>>
        ELSE SubSeq(name, CHOOSE i \in dots : \A j \in dots : j <= i, Len(name))

\* ''.join(PurePath.suffixes[-2:]) when there are two suffixes or more
CompoundSuffix(name) ==
    LET dots == SuffixDots(name)
        last == CHOOSE i \in dots : \A j \in dots : j <= i
        rest == dots \ {last}
    IN  IF Cardinality(dots) < 2 THEN <<>>
        ELSE SubSeq(name, CHOOSE i \in rest : \A j \in rest : j <= i, Len(name))

\* config['extract']['supported_formats']
supported_formats == {DOT_ZIP, <<".", "t", "a", "r", ".", "g", "z">>}

\* _is_supported_format that takes every name
_is_supported_format_any(name) == TRUE

_is_supported_format(name) ==
    \/ Lower(Suffix(name)) \in supported_formats
    \/ /\ Cardinality(SuffixDots(name)) >= 2
       /\ Lower(CompoundSuffix(name)) \in supported_formats

\* config['passwords']['default_passwords']
default_passwords == <<"", "p1">>

\* config['passwords']['file_passwords'].get(filename, []), each entry
\* turned into the password it stands for
file_passwords(filename) == IF filename = SHORT_NAME THEN <<"p1">> ELSE <<>>

RECURSIVE Dedup(_, _)
\* all_passwords grown by the passwords of rest that it does not hold yet
Dedup(all_passwords, rest) ==
    IF rest = <<>> THEN all_passwords
    ELSE IF \E i \in 1..Len(all_passwords) : all_passwords[i] = Head(rest)
    THEN Dedup(all_passwords, Tail(rest))
    ELSE Dedup(Append(all_passwords, Head(rest)), Tail(rest))

_get_passwords_for_file(filename) ==
    Dedup(<<>>, file_passwords(filename) \o default_passwords)

\* an archive file: its name, whether it exists, and the passwords with
\* which zipfile tests and extracts it without an exception
Archive(name, exists, opens_with) ==
    [name |-> name, exists |-> exists, opens_with |-> opens_with]

PASSWORDS == {"", "p1", "p2"}

\* _try_extract_with_password: every exception ends as False
_try_extract_with_password(a, pwd) ==
    /\ Lower(Suffix(a.name)) = DOT_ZIP
    /\ pwd \in a.opens_with

\* the calls of extract_file: the archive, and the password argument as a
\* list (empty for None)
ExtractCalls ==
    {<<Archive(SHORT_NAME, TRUE, PASSWORDS), <<>>>>,
     <<Archive(SHORT_NAME, TRUE, {}), <<>>>>,
     <<Archive(SHORT_NAME, TRUE, {"p2"}), <<"p2">>>>,
     <<Archive(SHORT_NAME, TRUE, {""}), <<>>>>,
     <<Archive(OTHER_NAME, TRUE, PASSWORDS), <<>>>>,
     <<Archive(OTHER_NAME, FALSE, {}), <<>>>>,
     <<Archive(UNPARSED_NAME, TRUE, PASSWORDS), <<>>>>,
     <<Archive(UNPARSED_NAME, TRUE, {}), <<"p1">>>>,
     <<Archive(BAD_DATE_NAME, TRUE, {"p1"}), <<>>>>,
     <<Archive(<<"n", ".", "Z", "I", "P">>, TRUE, {"p1"}), <<>>>>,
     <<Archive(<<"n", ".", "r", "a", "r">>, TRUE, PASSWORDS), <<>>>>,
     <<Archive(<<"n", ".", "t", "a", "r", ".", "g", "z">>, TRUE, PASSWORDS), <<>>>>,
     <<Archive(SHORT_NAME \o <<"\n">>, TRUE, PASSWORDS), <<>>>>}

\* the run ends: extract_file returns value, or an exception leaves it
Finish(value) ==
    /\ xpc' = "idle"
    /\ xret' = value
    /\ passwords_to_try' = <<>>

Did(what) == [do |-> what]

Tried(pwd, ok) == [do |-> "try", pwd |-> pwd, ok |-> ok]

\* lines 325-342: the checks, the parse, and the call of save_archive_info
ExtractFile ==
    /\ xpc = "idle"
    /\ pc[1] = "idle"
    /\ now < MaxCalls
    /\ \E call \in ExtractCalls :
        LET a    == call[1]
            info == parse_archive_filename(a.name)
        IN  /\ archive' = a
            /\ IF ~a.exists \/ ~_is_supported_format(a.name)
               THEN /\ Finish("False")
                    /\ log' = <<>>
                    /\ UNCHANGED <<fname, archive_info, info_dict>>
                    /\ UNCHANGED storeVars
               ELSE /\ fname' = a.name
                    /\ archive_info' = info
                    /\ info_dict' = None
                    /\ xret' = "running"
                    /\ passwords_to_try' = call[2]
                    /\ IF info # None
                       THEN /\ Enter(1, "save_archive_info", info)
                            /\ xpc' = "saving"
                            /\ log' = <<Did("save_archive_info")>>
                       ELSE /\ xpc' = "setup"
                            /\ log' = <<>>
                            /\ UNCHANGED storeVars
    /\ UNCHANGED <<stage, libc_pads_year>>
    /\ UNCHANGED toolVars

\* lines 345-366, once save_archive_info has come back: the extraction
\* directory is made and the password list put together
SetUp ==
    /\ xpc = "setup" \/ (xpc = "saving" /\ pc[1] = "idle")
    /\ IF xpc = "saving" /\ ret[1] = "raised"
       THEN /\ Finish("raised")
            /\ UNCHANGED <<log, faults>>
       ELSE \/ /\ xpc' = "loop"
               /\ passwords_to_try' =
                    IF passwords_to_try # <<>> THEN passwords_to_try
                    ELSE _get_passwords_for_file(archive.name)
               /\ log' = Append(log, Did("mkdir"))
               /\ UNCHANGED <<xret, faults>>
            \/ /\ faults < MaxFaults
               /\ faults' = faults + 1
               /\ Finish("raised")
               /\ UNCHANGED log
    /\ UNCHANGED <<disk, pc, op, arg, existing_data, ret, failed_at, disk0, read_error, now>>
    /\ UNCHANGED parseVars
    /\ UNCHANGED archive
    /\ UNCHANGED toolVars

\* lines 371-393: one turn of the loop over passwords_to_try, or its end
TryPassword ==
    /\ xpc = "loop"
    /\ IF passwords_to_try = <<>>
       THEN /\ Finish("False")
            /\ UNCHANGED <<log, info_dict>>
            /\ UNCHANGED storeVars
       ELSE LET pwd == Head(passwords_to_try)
                ok  == _try_extract_with_password(archive, pwd)
            IN  /\ log' = IF ok /\ archive_info # None
                          THEN log \o <<Tried(pwd, ok), Did("_save_archive_info_dict")>>
                          ELSE Append(log, Tried(pwd, ok))
                /\ IF ~ok
                   THEN /\ passwords_to_try' = Tail(passwords_to_try)
                        /\ UNCHANGED <<xpc, xret, info_dict>>
                        /\ UNCHANGED storeVars
                   ELSE IF archive_info = None
                   THEN /\ Finish("True")
                        /\ UNCHANGED info_dict
                        /\ UNCHANGED storeVars
                   ELSE /\ info_dict' = ExtractedDict(archive_info, libc_pads_year, now + 1)
                        /\ Enter(1, "_save_archive_info_dict", info_dict')
                        /\ xpc' = "marking"
                        /\ UNCHANGED <<passwords_to_try, xret>>
    /\ UNCHANGED <<fname, stage, archive_info, libc_pads_year>>
    /\ UNCHANGED archive
    /\ UNCHANGED toolVars

\* line 390, once _save_archive_info_dict has come back
ReturnTrue ==
    /\ xpc = "marking"
    /\ pc[1] = "idle"
    /\ Finish(IF ret[1] = "raised" THEN "raised" ELSE "True")
    /\ UNCHANGED <<archive, log>>
    /\ UNCHANGED storeVars
    /\ UNCHANGED parseVars
    /\ UNCHANGED toolVars

NextExtract ==
    \/ ExtractFile
    \/ SetUp
    \/ TryPassword
    \/ ReturnTrue
    \/ Load(1)
    \/ OpenWrite(1)
    \/ Dump(1)

SpecExtract == Init /\ [][NextExtract]_vars

(***************************************************************************)
(* Properties of the store (checked under Spec).                           *)
(***************************************************************************)
\* the filenames of a list of records, in list order
Filenames(data) == [k \in 1..Len(data) |-> data[k].filename]

\* the records of a file: those json.load reads from the list it holds,
\* none otherwise
Records(f) == IF f.kind = "list" /\ ~Malformed(f.data) THEN JsonLoad(f.data) ELSE <<>>

\* caller 1's last call was this function and has returned this value
Returned(o, value) == pc[1] = "idle" /\ op[1] = o /\ ret[1] = value

\* C1: starting from an absent or empty store, after any sequence of
\* save_archive_info and _save_archive_info_dict calls no two records of the
\* stored list have the same filename.
C1_UniqueFilename ==
    \A i, j \in 1..Len(Records(disk)) :
        Records(disk)[i].filename = Records(disk)[j].filename => i = j

\* C1 witness: a two-record store after a _save_archive_info_dict call for a
\* filename that was already stored.
C1_Witness ==
    /\ Returned("_save_archive_info_dict", "True")
    /\ FindRecord(Records(disk0[1]), arg[1].filename) # 0
    /\ Len(Records(disk)) = 2

\* C2: after save_archive_info(r2) has succeeded, also when the store held a
\* record r1 of the same filename with other field values, exactly one stored
\* record has that filename and each of its parsed fields is r2's value.
C2_SecondUpsertWins ==
    Returned("save_archive_info", "True") =>
        LET hits == {i \in 1..Len(Records(disk)) :
                        Records(disk)[i].filename = arg[1].filename}
        IN  /\ Cardinality(hits) = 1
            /\ \A i \in hits :
                /\ Records(disk)[i].date_str = arg[1].date_str
                /\ Records(disk)[i].post_id = arg[1].post_id
                /\ Records(disk)[i].floor_number = arg[1].floor_number
                /\ Records(disk)[i].author_id = ANON \o arg[1].author_id
                /\ Records(disk)[i].encryption_method = arg[1].encryption_method
                /\ Records(disk)[i].forum_url = FORUM \o arg[1].post_id \o <<"/">>

\* C2 witness: save_archive_info has succeeded for a filename the store held,
\* written by an earlier save_archive_info with another post id.
C2_Witness ==
    /\ Returned("save_archive_info", "True")
    /\ LET i == FindRecord(Records(disk0[1]), arg[1].filename)
       IN  /\ i # 0
           /\ "updated_at" \in DOMAIN Records(disk0[1])[i]
           /\ Records(disk0[1])[i].post_id # arg[1].post_id

\* the order of filenames a call for filename leaves, given the order before
OrderKept(old, new, filename) ==
    IF FindRecord(old, filename) # 0
    THEN Filenames(new) = Filenames(old)
    ELSE Filenames(new) = Append(Filenames(old), filename)

\* C3 as stated: across every save_archive_info that succeeds, the filenames
\* stored before keep their positions, and a new filename goes to the end.
C3_OrderKeptAlways ==
    Returned("save_archive_info", "True") =>
        OrderKept(Records(disk0[1]), Records(disk), arg[1].filename)

\* C3 amended: the same, across every save_archive_info that succeeds and
\* whose read of the existing file raised no IOError.
C3_OrderKeptWhenRead ==
    (Returned("save_archive_info", "True") /\ read_error[1] # "IOError") =>
        OrderKept(Records(disk0[1]), Records(disk), arg[1].filename)

\* C3 witness: the first of two stored records has been replaced, and the
\* file was read without error.
C3_Witness ==
    /\ Returned("save_archive_info", "True")
    /\ read_error[1] = "none"
    /\ Len(Records(disk0[1])) = 2
    /\ FindRecord(Records(disk0[1]), arg[1].filename) = 1
    /\ Records(disk)[1] # Records(disk0[1])[1]

\* C8 as stated: a call that returned False left the file as it was, and the
\* file never holds a truncated or partly written list.
C8_FailureLeavesFile ==
    /\ Returned("save_archive_info", "False") => disk = disk0[1]
    /\ disk.kind \notin {"truncated", "cut_in_char"}

\* C9 as stated: no call ends by raising to its caller.
C9_NeverRaises == \A p \in Procs : ret[p] # "raised"

\* C10 as stated: when the file is absent, unreadable or not parseable JSON,
\* and neither the rendering of the record nor the write fails, the call
\* returns True and the store holds the incoming record alone.
C10_DegradedReadContinues ==
    ( /\ pc[1] = "idle" /\ op[1] = "save_archive_info"
      /\ ret[1] \in {"True", "False"}
      /\ \/ disk0[1].kind = "absent"
         \/ NotJson(disk0[1])
         \/ NotUtf8(disk0[1])
         \/ read_error[1] # "none"
      /\ failed_at[1] \notin {"to_dict", "open", "dump"} )
    => /\ ret[1] = "True"
       /\ Len(Records(disk)) = 1
       /\ Records(disk)[1].filename = arg[1].filename

\* C11 as stated: every record of the stored list has an updated_at value,
\* whichever of save_archive_info and _save_archive_info_dict wrote it.
C11_UpdatedAtEverywhere ==
    \A i \in 1..Len(Records(disk)) : "updated_at" \in DOMAIN Records(disk)[i]

\* every filename of old is one of new, and new is no shorter
NothingDeleted(old, new) ==
    /\ Len(new) >= Len(old)
    /\ \A i \in 1..Len(old) : FindRecord(new, old[i].filename) # 0

\* C12 as stated: whenever a call has returned, True or False, every
\* filename the store held when the call began is still stored, and the
\* list is no shorter than it was.
C12_NeverDeletes ==
    (pc[1] = "idle" /\ ret[1] \in {"True", "False"}) =>
        NothingDeleted(Records(disk0[1]), Records(disk))

\* a record is marked as extracted
IsExtracted(record) == "extracted" \in DOMAIN record /\ record.extracted = TRUE

\* C13: in every stored record extract_dir and extraction_time are present
\* exactly when extracted is true, and the record a save_archive_info call
\* has just written has none of extracted, extract_dir and extraction_time.
C13_ExtractionFieldsTogether ==
    /\ \A i \in 1..Len(Records(disk)) :
        LET record == Records(disk)[i]
        IN  /\ "extract_dir" \in DOMAIN record <=> IsExtracted(record)
            /\ "extraction_time" \in DOMAIN record <=> IsExtracted(record)
    /\ Returned("save_archive_info", "True") =>
        LET record == Records(disk)[FindRecord(Records(disk), arg[1].filename)]
        IN  DOMAIN record \cap {"extracted", "extract_dir", "extraction_time"} = {}

\* C13 witness: the store holds a record marked as extracted and, after it,
\* one that save_archive_info has just written.
C13_Witness ==
    /\ Returned("save_archive_info", "True")
    /\ Len(Records(disk)) = 2
    /\ IsExtracted(Records(disk)[1])
    /\ FindRecord(Records(disk), arg[1].filename) = 2

\* C15 as stated: with one caller at a time, a call that has returned True
\* leaves every filename the store held and the filename it was called with,
\* so after any such sequence every upserted filename is stored.
C15_SerializedKeepsAll ==
    (pc[1] = "idle" /\ ret[1] = "True") =>
        /\ NothingDeleted(Records(disk0[1]), Records(disk))
        /\ FindRecord(Records(disk), arg[1].filename) # 0

\* C15 amended: the same, for a call whose read of the existing file raised
\* no IOError.
C15_SerializedKeepsAllWhenRead ==
    (pc[1] = "idle" /\ ret[1] = "True" /\ read_error[1] # "IOError") =>
        /\ NothingDeleted(Records(disk0[1]), Records(disk))
        /\ FindRecord(Records(disk), arg[1].filename) # 0

\* C15 witness: a second filename has been upserted into a store that held
\* one record, and both are stored.
C15_Witness ==
    /\ Returned("save_archive_info", "True")
    /\ read_error[1] = "none"
    /\ Len(Records(disk0[1])) = 1
    /\ Len(Records(disk)) = 2
    /\ Records(disk)[2].filename = arg[1].filename

\* the record without its updated_at
WithoutUpdatedAt(record) == [k \in DOMAIN record \ {"updated_at"} |-> record[k]]

\* the same records in the same places, updated_at apart
SameApartFromUpdatedAt(old, new) ==
    /\ Len(new) = Len(old)
    /\ \A i \in 1..Len(old) : WithoutUpdatedAt(new[i]) = WithoutUpdatedAt(old[i])

\* the call is a repeat: when it began, the store held for the filename the
\* record a save_archive_info of the same argument writes
RepeatedUpsert ==
    /\ Returned("save_archive_info", "True")
    /\ LET i == FindRecord(Records(disk0[1]), arg[1].filename)
       IN  /\ i # 0
           /\ "updated_at" \in DOMAIN Records(disk0[1])[i]
           /\ WithoutUpdatedAt(Records(disk0[1])[i]) = to_dict(arg[1], libc_pads_year)

\* C19 as stated: a save_archive_info of a record the store already holds
\* from a save_archive_info of the same record leaves the list as long as it
\* was, in the same order and with the same values, updated_at apart.
C19_Idempotent ==
    RepeatedUpsert => SameApartFromUpdatedAt(Records(disk0[1]), Records(disk))

\* C19 amended: the same, when the read of the repeated call raised no
\* IOError.
C19_IdempotentWhenRead ==
    (RepeatedUpsert /\ read_error[1] # "IOError") =>
        SameApartFromUpdatedAt(Records(disk0[1]), Records(disk))

\* C19 witness: the first of two stored records has been upserted again,
\* with a later updated_at.
C19_Witness ==
    /\ RepeatedUpsert
    /\ read_error[1] = "none"
    /\ Len(Records(disk)) = 2
    /\ FindRecord(Records(disk), arg[1].filename) = 1
    /\ Records(disk)[1].updated_at # Records(disk0[1])[1].updated_at

(***************************************************************************)
(* Properties of the written file (checked under SpecMain).                *)
(***************************************************************************)
\* C17: after save_archive_info has returned True, the list json.load reads
\* from the file holds, for the filename, a record with the keys and the
\* values of the record that was written: to_dict and updated_at.
C17_RoundTrip ==
    Returned("save_archive_info", "True") =>
        LET i == FindRecord(Records(disk), arg[1].filename)
        IN  /\ i # 0
            /\ Records(disk)[i] = NewRecord(arg[1], libc_pads_year, now)

\* C17 witness: the filename with a quote and a backslash has been saved
\* after the one with a trailing newline, and the file holds both.
C17_Witness ==
    /\ Returned("save_archive_info", "True")
    /\ arg[1].filename = QUOTED_NAME
    /\ Len(Records(disk)) = 2
    /\ Records(disk)[1].filename = NEWLINE_NAME

(***************************************************************************)
(* Properties of the store with two callers (checked under SpecConc).      *)
(***************************************************************************)
\* the last save_archive_info of each caller has returned True, the two were
\* for two filenames, and both read the same file, which held neither
BothSavedFromOneRead ==
    /\ \A p \in Procs : pc[p] = "idle" /\ op[p] = "save_archive_info" /\ ret[p] = "True"
    /\ arg[1].filename # arg[2].filename
    /\ disk0[1] = disk0[2]
    /\ \A p \in Procs : FindRecord(Records(disk0[1]), arg[p].filename) = 0

\* C16: when two save_archive_info calls for two filenames have both read
\* the file before either wrote it, and both have returned True, the store
\* holds the record of one of them and not of the other.
C16_LostUpdate ==
    BothSavedFromOneRead =>
        /\ (FindRecord(Records(disk), arg[1].filename) # 0)
            # (FindRecord(Records(disk), arg[2].filename) # 0)
        /\ Len(Records(disk)) = Len(Records(disk0[1])) + 1

\* C16 witness: both calls found the store empty and have returned True, and
\* the store holds a single record.
C16_Witness ==
    /\ BothSavedFromOneRead
    /\ Records(disk0[1]) = <<>>
    /\ Len(Records(disk)) = 1

(***************************************************************************)
(* Properties of extract_file (checked under SpecExtract).                 *)
(***************************************************************************)
\* the places of the log where something of this kind was done
Places(what) == {i \in 1..Len(log) : log[i].do = what}

\* the run has parsed its filename and called save_archive_info first,
\* every attempt stands after that call, and the call had returned before
\* the first attempt
UpsertBeforeAttempts ==
    /\ (archive_info # None /\ log # <<>>) => log[1].do = "save_archive_info"
    /\ Places("save_archive_info") \subseteq {1}
    /\ xpc = "saving" => Places("try") = {}
    /\ xpc = "loop" => pc[1] = "idle"

\* _save_archive_info_dict is called straight after an attempt that
\* succeeded, after every such attempt of a parsed filename, and never else
MarkAfterSuccessOnly ==
    /\ \A i \in Places("_save_archive_info_dict") :
        i > 1 /\ log[i - 1].do = "try" /\ log[i - 1].ok
    /\ \A i \in Places("try") :
        (log[i].ok /\ archive_info # None) =>
            (i < Len(log) /\ log[i + 1].do = "_save_archive_info_dict")
    /\ Places("_save_archive_info_dict") \subseteq {Len(log)}

\* the run of a parsed filename has ended with every attempt failed
AllAttemptsFailed ==
    /\ xpc = "idle" /\ xret = "False"
    /\ Places("save_archive_info") # {}
    /\ Places("mkdir") # {}

\* the store holds a record of the run's filename that is not marked
HoldsUnmarkedRecord ==
    LET i == FindRecord(Records(disk), fname)
    IN  i # 0 /\ ~IsExtracted(Records(disk)[i])

PARSED_KEYS == {"date_str", "date_formatted", "post_id", "floor_number", "author_id",
                "encryption_method", "forum_url", "password_description"}

\* the record has, under every parsed key, the value to_dict gives for the
\* parse of the record's filename
ParsedFieldsOfFilename(record) ==
    LET info == parse_archive_filename(record.filename)
    IN  /\ info # None
        /\ \A k \in PARSED_KEYS : record[k] = to_dict(info, libc_pads_year)[k]

\* C18: across extract_file runs, every stored record has under each parsed
\* key the value that follows from its filename alone, so the parsed fields
\* stored for a filename never change; the versions of a record differ in
\* updated_at, extracted, extract_dir and extraction_time only.
C18_ParsedFieldsFixed ==
    \A i \in 1..Len(Records(disk)) :
        /\ ParsedFieldsOfFilename(Records(disk)[i])
        /\ DOMAIN Records(disk)[i] \subseteq
            PARSED_KEYS \cup {"filename", "updated_at", "extracted", "extract_dir",
                              "extraction_time"}

\* C18 witness: a run has replaced the unmarked record of its filename,
\* written by an earlier call, by one marked as extracted.
C18_Witness ==
    /\ xpc = "idle" /\ xret = "True"
    /\ Returned("_save_archive_info_dict", "True")
    /\ LET old == FindRecord(Records(disk0[1]), fname)
           new == FindRecord(Records(disk), fname)
       IN  /\ old # 0 /\ new # 0
           /\ ~IsExtracted(Records(disk0[1])[old])
           /\ IsExtracted(Records(disk)[new])
           /\ Len(Records(disk)) = 2

(***************************************************************************)
(* Properties of the parser (checked under SpecParse).                     *)
(***************************************************************************)
\* the naming rule read as a grammar of the whole string
WholeGrammar(s) ==
    LET n  == Len(s)
        i1 == Len(PREFIX) + 9
        underscores == {k \in 1..n : s[k] = "_"}
    IN  /\ n >= i1
        /\ SubSeq(s, 1, Len(PREFIX)) = PREFIX
        /\ SubSeq(s, n - 3, n) = DOT_ZIP
        /\ \A k \in (Len(PREFIX) + 1)..(i1 - 1) : IsDigit(s[k])
        /\ s[i1] = "_"
        /\ \E i2 \in underscores :
            /\ i1 + 1 < i2
            /\ \A k \in (i1 + 1)..(i2 - 1) : IsDigit(s[k])
            /\ \E i3 \in underscores :
                /\ i2 + 1 < i3
                /\ \A k \in (i2 + 1)..(i3 - 1) : IsDigit(s[k])
                /\ \E i4 \in underscores :
                    /\ i3 + 1 < i4 /\ i4 + 1 <= n - 4
                    /\ \A k \in (i3 + 1)..(i4 - 1) : s[k] # "_"
                    /\ \A k \in (i4 + 1)..(n - 4) : s[k] # "."

\* C4 as stated: a string that does not match the grammar as a whole
\* yields None.
C4_AnchoredAtBothEnds ==
    (stage # "input" /\ archive_info # None) => WholeGrammar(fname)

\* the eight characters after the prefix
DateGroup(s) == SubSeq(s, Len(PREFIX) + 1, Len(PREFIX) + 8)

\* the days of each month of the calendar, February apart
MONTH_DAYS == <<31, 28, 31, 30, 31, 30, 31, 31, 30, 31, 30, 31>>

\* eight digits YYYYMMDD that name a day of the calendar
RealDate(ds) ==
    LET y == ToInt(SubSeq(ds, 1, 4))
        m == ToInt(SubSeq(ds, 5, 6))
        d == ToInt(SubSeq(ds, 7, 8))
        leap == y % 4 = 0 /\ (y % 100 # 0 \/ y % 400 = 0)
    IN  /\ m >= 1 /\ m <= 12
        /\ d >= 1
        /\ d <= (IF m = 2 /\ leap THEN 29 ELSE MONTH_DAYS[m])

\* C5: a filename that matches the character grammar and whose date group
\* is no day of the calendar yields None.
C5_UnrealDateRejected ==
    (stage # "input" /\ ReMatch(fname).matched /\ ~RealDate(DateGroup(fname)))
        => archive_info = None

\* C5 witness: the date group 20250231 has been parsed.
C5_Witness ==
    /\ stage = "parsed"
    /\ ReMatch(fname).matched
    /\ DateGroup(fname) = <<"2", "0", "2", "5", "0", "2", "3", "1">>

\* C6 as stated: for a date group of eight ASCII digits that name a day of
\* the calendar, date_formatted is the same digits as YYYY-MM-DD, ten
\* characters long.
C6_DateFormattedSameDigits ==
    (stage = "dict" /\ \A k \in 1..8 : AsciiDigit(DateGroup(fname)[k])) =>
        info_dict.date_formatted =
            SubSeq(DateGroup(fname), 1, 4) \o <<"-">> \o SubSeq(DateGroup(fname), 5, 6)
            \o <<"-">> \o SubSeq(DateGroup(fname), 7, 8)

\* C7: the rendered record of a parsed filename has post_id, floor_number and
\* encryption_method equal to the filename's groups, author_id equal to the
\* prefix followed by the author group, and forum_url equal to
\* https://cc98.org/<post_id>/; the example filename gives 2025-05-02,
\* 5399305, 2696, the prefixed 26893D, sha256 and https://cc98.org/5399305/.
C7_RenderedFields ==
    stage = "dict" =>
        /\ Len(info_dict.author_id) > Len(ANON)
        /\ SubSeq(info_dict.author_id, 1, Len(ANON)) = ANON
        /\ \A k \in 1..Len(info_dict.author_id) : info_dict.author_id[k] # "_"
        /\ \A k \in 1..Len(info_dict.encryption_method) : info_dict.encryption_method[k] # "."
        /\ LET name == NameOf(DateGroup(fname), info_dict.post_id, info_dict.floor_number,
                              SubSeq(info_dict.author_id, Len(ANON) + 1,
                                     Len(info_dict.author_id)),
                              info_dict.encryption_method)
           IN  fname = name \/ fname = name \o <<"\n">>
        /\ info_dict.forum_url = FORUM \o info_dict.post_id \o <<"/">>
        /\ fname = EXAMPLE_NAME =>
            /\ info_dict.date_formatted = <<"2", "0", "2", "5", "-", "0", "5", "-", "0", "2">>
            /\ info_dict.post_id = <<"5", "3", "9", "9", "3", "0", "5">>
            /\ info_dict.floor_number = <<"2", "6", "9", "6">>
            /\ info_dict.author_id = <<"U+533F", "U+540D", "2", "6", "8", "9", "3", "D">>
            /\ info_dict.encryption_method = <<"s", "h", "a", "2", "5", "6">>
            /\ info_dict.forum_url =
                 <<"h", "t", "t", "p", "s", ":", "/", "/", "c", "c", "9", "8", ".",
                   "o", "r", "g", "/", "5", "3", "9", "9", "3", "0", "5", "/">>

\* C7 witness: the example filename has been parsed and rendered.
C7_Witness == stage = "dict" /\ fname = EXAMPLE_NAME

\* C20: a call of parse_archive_filename ends by returning, None or an
\* ArchiveInfo and never an exception; what it returns is the value the
\* filename alone determines; and the call leaves the store file and every
\* other part of the store's state as they were.
C20_ParsePure ==
    [][stage = "input" =>
        /\ archive_info' # ValueError
        /\ archive_info' = parse_archive_filename(fname)
        /\ archive_info' # None =>
            archive_info' = ArchiveInfo(fname, ReMatch(fname).groups[1],
                                        ReMatch(fname).groups[2], ReMatch(fname).groups[3],
                                        ReMatch(fname).groups[4], ReMatch(fname).groups[5])
        /\ fname' = fname
        /\ storeVars' = storeVars]_vars

\* C20 witness: a filename of the right shape with the year 0000, for which
\* strptime raises, has been parsed and the result is None.
C20_Witness ==
    /\ stage = "parsed"
    /\ ReMatch(fname).matched
    /\ DateGroup(fname) = <<"0", "0", "0", "0", "0", "1", "0", "1">>
    /\ archive_info = None

(***************************************************************************)
(* Further properties of the store (checked under Spec).                   *)
(***************************************************************************)
\* every record of old with another filename stands in new, as it was
OthersKept(old, new, filename) ==
    \A i \in 1..Len(old) :
        old[i].filename # filename => \E j \in 1..Len(new) : new[j] = old[i]

\* C21 as stated: whenever a save_archive_info or _save_archive_info_dict
\* call for a filename has returned, every record of another filename that
\* the store held when the call read it is still stored with the same keys
\* and values.
C21_OtherRecordsUntouched ==
    (pc[1] = "idle" /\ ret[1] \in {"True", "False"}) =>
        OthersKept(Records(disk0[1]), Records(disk), arg[1].filename)

(***************************************************************************)
(* Further properties of the parser (checked under SpecParse).             *)
(***************************************************************************)
\* C27 as stated: for every filename that parses, the prefix, the five
\* fields with their separators and .zip put together give the record's
\* filename, the author id holds no underscore and the encryption method no
\* dot.
C27_FieldsRebuildFilename ==
    (stage # "input" /\ archive_info # None) =>
        /\ NameOf(archive_info.date_str, archive_info.post_id, archive_info.floor_number,
                  archive_info.author_id, archive_info.encryption_method)
            = archive_info.filename
        /\ \A k \in 1..Len(archive_info.author_id) : archive_info.author_id[k] # "_"
        /\ \A k \in 1..Len(archive_info.encryption_method) :
            archive_info.encryption_method[k] # "."

(***************************************************************************)
(* The store over a file that holds JSON of another shape (SpecForeign).   *)
(***************************************************************************)
\* the record save_archive_info writes for SHORT_NAME
SHORT_RECORD == NewRecord(parse_archive_filename(SHORT_NAME), TRUE, 0)

\* store files that hold valid JSON which is no list of objects
ForeignStores ==
    {File("object", <<>>), File("number", <<>>),
     File("list", JsonDump(<<FIVE>>)),
     File("list", JsonDump(<<FIVE, SHORT_RECORD>>)),
     File("list", JsonDump(<<SHORT_RECORD, FIVE>>))}

InitForeign ==
    /\ ParserIdle
    /\ ExtractIdle
    /\ ToolsIdle
    /\ disk \in ForeignStores
    /\ pc = [p \in Procs |-> "idle"]
    /\ op = [p \in Procs |-> "none"]
    /\ arg = [p \in Procs |-> None]
    /\ existing_data = [p \in Procs |-> <<>>]
    /\ ret = [p \in Procs |-> "none"]
    /\ failed_at = [p \in Procs |-> "none"]
    /\ disk0 = [p \in Procs |-> Absent]
    /\ read_error = [p \in Procs |-> "none"]
    /\ now = 0
    /\ faults = 0

SpecForeign == InitForeign /\ [][Next]_vars

\* the file holds valid JSON that is no list of objects
Foreign(f) ==
    \/ f.kind \in {"object", "number"}
    \/ f.kind = "list" /\ \E i \in 1..Len(f.data) : ~IsObject(f.data[i])

\* the list of the file holds a record of the filename before every element
\* that is no object
FoundBeforeForeign(f, filename) ==
    /\ f.kind = "list"
    /\ \E i \in 1..Len(f.data) :
        /\ IsObject(f.data[i])
        /\ JsonLoadRecord(f.data[i]).filename = filename
        /\ \A j \in 1..(i - 1) : IsObject(f.data[j])

\* C25 as stated: a call of the store on a file that holds valid JSON which
\* is no list of objects returns False, does not raise, and leaves the file
\* as it was.
C25_ForeignStoreRefused ==
    (pc[1] = "idle" /\ ret[1] # "none" /\ Foreign(disk0[1])) =>
        (ret[1] = "False" /\ disk = disk0[1])

\* C25 amended: on such a file, when the read does not fail with IOError and
\* the list holds no record of the filename before its first element that
\* is no object, the call leaves the file as it was and returns False from
\* the scan, or raises from the making of the directory before the read.
C25_ForeignStoreRefusedWhenScanned ==
    (/\ pc[1] = "idle" /\ ret[1] # "none"
     /\ Foreign(disk0[1])
     /\ read_error[1] # "IOError"
     /\ ~FoundBeforeForeign(disk0[1], arg[1].filename)) =>
        /\ disk = disk0[1]
        /\ \/ ret[1] = "False" /\ failed_at[1] = "scan"
           \/ ret[1] = "raised" /\ failed_at[1] = "mkdir"

\* C25 witness: the call on a file that holds a JSON object has returned
\* False from the scan and the file is as it was.
C25_Witness ==
    /\ pc[1] = "idle" /\ ret[1] = "False" /\ failed_at[1] = "scan"
    /\ disk0[1].kind = "object"
    /\ disk = disk0[1]

(***************************************************************************)
(* download_with_retry of file_downloader.py, step by step (SpecRetry).    *)
(***************************************************************************)
\* the greatest download.max_retries the model configures
MaxRetries == 3

\* download_config.get('max_retries', 3) when the key is missing
DEFAULT_MAX_RETRIES == 3

\* the values download.max_retries takes
RetryConfigs == (-1..MaxRetries) \cup {DEFAULT_MAX_RETRIES}

RECURSIVE Pow2(_)
\* 2 ** n
Pow2(n) == IF n = 0 THEN 1 ELSE 2 * Pow2(n - 1)

\* a loop of one pass more than range(max_retries + 1)
AttemptsOneMore(retries) == retries + 2

\* the number of passes of "for attempt in range(max_retries + 1)"
Attempts(retries) == retries + 1

\* how a call of download_file can end: True ("ok"), False from the file
\* type check, from the size check or from an exception of the request, or
\* the exception of download_path.mkdir, which stands before the try block
Outcomes(type_allowed) ==
    IF type_allowed THEN {"ok", "too_large", "request_error", "mkdir_raises"}
    ELSE {"refused"}

EndRetry(value) ==
    /\ dpc' = "done"
    /\ dret' = value

\* the call, up to the head of the loop
DownloadWithRetry ==
    /\ dpc = "idle"
    /\ dret = "none"
    /\ \E r \in RetryConfigs, a \in BOOLEAN :
        /\ max_retries' = r
        /\ allowed' = a
        /\ IF Attempts(r) > 0
           THEN dpc' = "top" /\ UNCHANGED dret
           ELSE EndRetry("False")
    /\ attempt' = 0
    /\ UNCHANGED <<slept, results>>
    /\ UNCHANGED <<parseVars, storeVars, extractVars, builderVars>>

\* if attempt > 0: time.sleep(2 ** attempt)
Backoff ==
    /\ dpc = "top"
    /\ slept' = IF attempt > 0 THEN Append(slept, Pow2(attempt)) ELSE slept
    /\ dpc' = "call"
    /\ UNCHANGED <<max_retries, allowed, attempt, results, dret>>
    /\ UNCHANGED <<parseVars, storeVars, extractVars, builderVars>>

\* if self.download_file(...): return True; else the next pass, or the
\* return False after the loop
DownloadFile ==
    /\ dpc = "call"
    /\ \E outcome \in Outcomes(allowed) :
        /\ results' = Append(results, outcome)
        /\ IF outcome = "ok" THEN EndRetry("True") /\ UNCHANGED attempt
           ELSE IF outcome = "mkdir_raises" THEN EndRetry("raised") /\ UNCHANGED attempt
           ELSE /\ attempt' = attempt + 1
                /\ IF attempt + 1 < Attempts(max_retries)
                   THEN dpc' = "top" /\ UNCHANGED dret
                   ELSE EndRetry("False")
    /\ UNCHANGED <<max_retries, allowed, slept>>
    /\ UNCHANGED <<parseVars, storeVars, extractVars, builderVars>>

NextRetry == DownloadWithRetry \/ Backoff \/ DownloadFile

\* the interpreter goes on with a call it has begun
InitRetry == Init /\ disk = Absent /\ libc_pads_year = TRUE

SpecRetry == InitRetry /\ [][NextRetry]_vars /\ WF_vars(NextRetry)

\* the calls of download_file that returned True
Succeeded == {i \in 1..Len(results) : results[i] = "ok"}

\* what holds of the loop in every state
RetryLoopSafe ==
    /\ Len(results) <= max_retries + 1
    /\ \A i \in Succeeded : i = Len(results)
    /\ dret = "True" <=> Succeeded # {}
    /\ dret = "False" => Len(results) = Attempts(max_retries)
    /\ \A k \in 1..Len(slept) : slept[k] = Pow2(k)
    /\ dpc = "call" => (Len(slept) = attempt /\ Len(results) = attempt)
    /\ dpc = "done" => Len(slept) = (IF results = <<>> THEN 0 ELSE Len(results) - 1)

\* C28: download_with_retry calls download_file at most max_retries + 1
\* times and never after a call that succeeded, returns True exactly when a
\* call succeeded, sleeps 2^attempt seconds before the call of each attempt
\* from the second on, and every call of it comes to an end.
C28_RetryLoop ==
    /\ []RetryLoopSafe
    /\ (dpc # "idle") ~> (dpc = "done")

\* C28 witness: the call has returned True from its third call of
\* download_file, after sleeps of 2 and 4 seconds.
C28_Witness ==
    /\ dpc = "done" /\ dret = "True"
    /\ Len(results) = 3
    /\ slept = <<2, 4>>

(***************************************************************************)
(* get_update_date of build_html.py beside the store (SpecBuild).          *)
(***************************************************************************)
\* the date get_update_date falls back to
DEFAULT_DATE == <<"2", "0", "2", "5", "-", "0", "8", "-", "1", "3">>

\* what get_update_date returns over the file f: every exception of the
\* read, of json.load and of archive_info[0].get ends in the default
get_update_date(f, io_error) ==
    IF f.kind = "absent" THEN DEFAULT_DATE
    ELSE IF io_error \/ NotUtf8(f) \/ NotJson(f) THEN DEFAULT_DATE
    ELSE IF f.kind \in {"object", "number"} THEN DEFAULT_DATE
    ELSE LET archive_info_list == JsonLoad(f.data)
         IN  IF archive_info_list = <<>> THEN DEFAULT_DATE
             ELSE IF ~IsDict(archive_info_list[1]) THEN DEFAULT_DATE
             ELSE IF "date_formatted" \in DOMAIN archive_info_list[1]
                  THEN archive_info_list[1].date_formatted
             ELSE DEFAULT_DATE

\* the builder reads the store, at any moment of a store call
GetUpdateDate ==
    /\ \E io_error \in BOOLEAN :
        /\ io_error => disk.kind # "absent" /\ faults < MaxFaults
        /\ faults' = IF io_error THEN faults + 1 ELSE faults
        /\ update_date' = get_update_date(disk, io_error)
        /\ builder_read' = [file |-> disk, io_error |-> io_error]
    /\ UNCHANGED <<disk, pc, op, arg, existing_data, ret, failed_at, disk0, read_error, now>>
    /\ UNCHANGED <<teachers, statistics>>
    /\ UNCHANGED <<parseVars, extractVars, retryVars>>

NextBuild ==
    \/ SaveArchiveInfo
    \/ SaveArchiveInfoDict
    \/ Load(1)
    \/ OpenWrite(1)
    \/ Dump(1)
    \/ GetUpdateDate

SpecBuild == Init /\ [][NextBuild]_vars

\* the update date is that of the record at position 0 of the file read,
\* the default when the file was absent, unreadable or an empty list
DateOfFirstRecord ==
    update_date # <<>> =>
        update_date =
            IF ~builder_read.io_error /\ Records(builder_read.file) # <<>>
            THEN Records(builder_read.file)[1].date_formatted
            ELSE DEFAULT_DATE

\* the update date of the store is the same after a store call for another
\* filename than that of the first record as before it
DateKeptByLaterUpserts ==
    (/\ pc[1] = "idle" /\ ret[1] \in {"True", "False"}
     /\ Records(disk0[1]) # <<>>
     /\ Records(disk0[1])[1].filename # arg[1].filename) =>
        get_update_date(disk, FALSE) = get_update_date(disk0[1], FALSE)

\* C29 as stated: the update date is the date_formatted of the record at
\* position 0 of the store, the default 2025-08-13 when the store is absent,
\* unreadable or an empty list, and an upsert of a later archive does not
\* change it.
C29_UpdateDateOfFirstInserted == DateOfFirstRecord /\ DateKeptByLaterUpserts

(***************************************************************************)
(* build_statistics of build_html.py over the loaded teachers (SpecStats). *)
(* A rating is a float: the model writes it as an integer, NAN for nan.    *)
(* An average is written in hundredths, as round(x, 2) leaves it.          *)
(***************************************************************************)
\* the longest list of teachers drawn from the pool
MaxTeachers == 3

\* the length of top_teachers and top_rated_teachers
TOP_N == 20

\* the rating_count a teacher needs to stand among the top rated
MIN_RATING_COUNT == 10

\* float("nan"), which float(row["评分"]) returns for the text nan
NAN == -1

IsNaN(x) == x = NAN

\* a < b on floats: False when either is nan
Lt(a, b) == ~IsNaN(a) /\ ~IsNaN(b) /\ a < b

\* a + b on floats
Add(a, b) == IF IsNaN(a) \/ IsNaN(b) THEN NAN ELSE a + b

ZeroDivisionError == [raised |-> "ZeroDivisionError"]

\* round(total / count, 2), in hundredths
Divide(total, count) ==
    IF count = 0 THEN ZeroDivisionError
    ELSE IF IsNaN(total) THEN [value |-> NAN]
    ELSE [value |-> (200 * total + count) \div (2 * count)]

\* a row of teachers.csv as load_teachers_data keeps it
Teacher(college, heat, rating_count, rating) ==
    [college |-> college, heat |-> heat, rating_count |-> rating_count, rating |-> rating]

TeacherPool ==
    {Teacher("a", 1, 10, 2), Teacher("a", 2, 10, 3), Teacher("b", 2, 9, 5),
     Teacher("b", 1, 10, 7), Teacher("a", 3, 11, 9), Teacher("b", 3, 12, NAN),
     Teacher("c", 0, 10, 4), Teacher("a", 1, 9, 10)}

\* a file of n rows, more than the top lists take
LongList(n) ==
    [i \in 1..n |->
        Teacher(IF i % 2 = 0 THEN "a" ELSE "b", (i * 7) % 5,
                IF i % 11 = 0 THEN 9 ELSE 10 + (i % 2), (i * 3) % 11)]

TeacherLists(n) ==
    UNION {[1..k -> TeacherPool] : k \in 0..n} \cup {LongList(TOP_N + 1), LongList(TOP_N + 3)}

\* the k-th smallest number of the set
Kth(S, k) == CHOOSE i \in S : Cardinality({j \in S : j < i}) = k - 1

\* sorted(seq, key=Key, reverse=True) for keys that are ordered: greatest
\* first, equal keys in the order they had
StableSortDesc(seq, key) ==
    LET n == Len(seq)
        Rank(i) == Cardinality({j \in 1..n : seq[j][key] > seq[i][key]})
                   + Cardinality({j \in 1..(i - 1) : seq[j][key] = seq[i][key]}) + 1
    IN  [p \in 1..n |-> seq[CHOOSE i \in 1..n : Rank(i) = p]]

\* seq[:TOP_N]
Top(seq) == SubSeq(seq, 1, IF Len(seq) < TOP_N THEN Len(seq) ELSE TOP_N)

RECURSIVE SumOver(_, _, _)
\* the sum of Field(t) over the teachers of the college, by the loop
SumOver(ts, college, field) ==
    IF ts = <<>> THEN 0
    ELSE LET rest == SumOver(Tail(ts), college, field)
             t    == Head(ts)
         IN  IF t.college # college THEN rest
             ELSE IF field = "rating" THEN Add(t.rating, rest)
             ELSE IF field = "heat" THEN t.heat + rest
             ELSE 1 + rest

RECURSIVE SumRating(_)
\* sum(t["rating"] for t in self.teachers)
SumRating(ts) == IF ts = <<>> THEN 0 ELSE Add(Head(ts).rating, SumRating(Tail(ts)))

\* the colleges in the order the loop meets them first
CollegeOrder(ts) ==
    LET first == {i \in 1..Len(ts) : \A j \in 1..(i - 1) : ts[j].college # ts[i].college}
    IN  [k \in 1..Cardinality(first) |-> ts[Kth(first, k)].college]

\* college_list, sorted by teacher_count
CollegeStats(ts) ==
    LET order == CollegeOrder(ts)
        list  == [k \in 1..Len(order) |->
                    [college |-> order[k],
                     teacher_count |-> SumOver(ts, order[k], "count"),
                     avg_rating |-> Divide(SumOver(ts, order[k], "rating"),
                                           SumOver(ts, order[k], "count")).value,
                     total_heat |-> SumOver(ts, order[k], "heat")]]
    IN  StableSortDesc(list, "teacher_count")

BUCKETS == {"0-3", "3-5", "5-7", "7-9", "9-10"}

\* the bucket the if/elif chain counts the rating in
Bucket(rating) ==
    IF Lt(rating, 3) THEN "0-3"
    ELSE IF Lt(rating, 5) THEN "3-5"
    ELSE IF Lt(rating, 7) THEN "5-7"
    ELSE IF Lt(rating, 9) THEN "7-9"
    ELSE "9-10"

RatingDistribution(ts) ==
    [b \in BUCKETS |-> Cardinality({i \in 1..Len(ts) : Bucket(ts[i].rating) = b})]

\* [t for t in self.teachers if t["rating_count"] >= 10]
HighRated(ts) ==
    LET keep == {i \in 1..Len(ts) : ts[i].rating_count >= MIN_RATING_COUNT}
    IN  [k \in 1..Cardinality(keep) |-> ts[Kth(keep, k)]]

\* the orders list.sort(key=rating, reverse=True) can leave: the sorted one,
\* or, with a nan among the keys, an order the language does not define
RatingSorts(seq) ==
    IF \E i \in 1..Len(seq) : IsNaN(seq[i].rating)
    THEN {[p \in 1..Len(seq) |-> seq[f[p]]] : f \in Permutations(1..Len(seq))}
    ELSE {StableSortDesc(seq, "rating")}

\* round(sum(...) / total_teachers, 2) if total_teachers > 0 else 0
OverallAvg(ts) == IF Len(ts) > 0 THEN Divide(SumRating(ts), Len(ts)) ELSE [value |-> 0]

\* self.statistics, but for total_comments
Statistics(ts, high_rated_sorted) ==
    IF OverallAvg(ts) = ZeroDivisionError THEN ZeroDivisionError
    ELSE
    [overview |-> [total_teachers |-> Len(ts),
                   total_colleges |-> Len(CollegeOrder(ts)),
                   avg_rating |-> OverallAvg(ts).value,
                   last_updated |-> update_date],
     college_stats |-> CollegeStats(ts),
     rating_distribution |-> RatingDistribution(ts),
     top_teachers |-> Top(StableSortDesc(ts, "heat")),
     top_rated_teachers |-> Top(high_rated_sorted)]

\* load_teachers_data: the rows of teachers.csv that convert
LoadTeachersData ==
    /\ teachers = <<>>
    /\ statistics = None
    /\ teachers' \in TeacherLists(MaxTeachers) \ {<<>>}
    /\ UNCHANGED <<update_date, builder_read, statistics>>
    /\ UNCHANGED <<parseVars, storeVars, extractVars, retryVars>>

BuildStatistics ==
    /\ statistics = None
    /\ \E high_rated_sorted \in RatingSorts(HighRated(teachers)) :
        statistics' = Statistics(teachers, high_rated_sorted)
    /\ UNCHANGED <<update_date, builder_read, teachers>>
    /\ UNCHANGED <<parseVars, storeVars, extractVars, retryVars>>

NextStats == LoadTeachersData \/ BuildStatistics

SpecStats == InitRetry /\ [][NextStats]_vars

RECURSIVE SumSeq(_)
\* the sum of a sequence of numbers
SumSeq(q) == IF q = <<>> THEN 0 ELSE Head(q) + SumSeq(Tail(q))

\* C30 as stated: the five buckets sum to total_teachers, the teacher_count
\* values of college_stats sum to total_teachers, top_teachers has at most
\* 20 entries in non-increasing heat order, top_rated_teachers has at most
\* 20 entries in non-increasing rating order (entries whose rating is nan
\* left aside), all with rating_count >= 10, and with no teachers the overall avg_rating is 0 and nothing is raised.
C30_StatisticsPartition ==
    statistics # None =>
        /\ "overview" \in DOMAIN statistics
        /\ LET n     == statistics.overview.total_teachers
               dist  == statistics.rating_distribution
               cs    == statistics.college_stats
               top   == statistics.top_teachers
               rated == statistics.top_rated_teachers
           IN  /\ n = Len(teachers)
               /\ dist["0-3"] + dist["3-5"] + dist["5-7"] + dist["7-9"] + dist["9-10"] = n
               /\ SumSeq([k \in 1..Len(cs) |-> cs[k].teacher_count]) = n
               /\ Len(top) <= 20
               /\ \A i, j \in 1..Len(top) : i < j => top[i].heat >= top[j].heat
               /\ Len(rated) <= 20
               /\ \A i, j \in 1..Len(rated) :
                    (i < j /\ ~IsNaN(rated[i].rating) /\ ~IsNaN(rated[j].rating))
                        => rated[i].rating >= rated[j].rating
               /\ \A i \in 1..Len(rated) : rated[i].rating_count >= 10
               /\ n = 0 => statistics.overview.avg_rating = 0

(***************************************************************************)
(* Further properties of extract_file (checked under SpecExtract).         *)
(***************************************************************************)
\* the name follows the naming rule and its date is a day of the calendar
FollowsRule(name) == WholeGrammar(name) /\ RealDate(DateGroup(name))

\* the name ends, whatever the case of its letters, with a configured format
HasSupportedEnding(name) ==
    \E f \in supported_formats :
        /\ Len(name) > Len(f)
        /\ Lower(SubSeq(name, Len(name) - Len(f) + 1, Len(name))) = f

\* the passwords the run of the archive is to try, in order
CandidatesOf(a) ==
    IF a = NoArchive THEN <<>>
    ELSE LET call == CHOOSE c \in ExtractCalls : c[1] = a
         IN  IF call[2] # <<>> THEN call[2] ELSE _get_passwords_for_file(a.name)

\* the passwords of the attempts made so far, in order
TriedSoFar ==
    LET tries == {i \in 1..Len(log) : log[i].do = "try"}
        first == CHOOSE i \in tries : \A j \in tries : i <= j
    IN  IF tries = {} THEN <<>>
        ELSE [k \in 1..Cardinality(tries) |-> log[first + k - 1].pwd]

\* the run got past its checks and has ended
RunEnded == xpc = "idle" /\ xret \in {"True", "False", "raised"} /\ archive # NoArchive

\* the state of the store and of its callers
StoreState == <<disk, pc, op, arg, existing_data, ret, failed_at, disk0, read_error, now>>

\* the step belongs to a run on an existing archive with a supported ending
\* whose name does not follow the rule
UnparsedRunStep ==
    /\ xpc # "idle" \/ xpc' # "idle"
    /\ archive'.exists /\ HasSupportedEnding(archive'.name)
    /\ ~FollowsRule(archive'.name)

\* the run ends in this step after its attempts: True after one that
\* succeeded, False after the whole list failed
EndsAfterAttempts ==
    /\ TriedSoFar' # <<>>
    /\ xret' \in {"True", "False"}
    /\ xret' = "True" => log'[Len(log')].ok
    /\ xret' = "False" => TriedSoFar' = CandidatesOf(archive')

C23_ExtractedStays ==
    (pc[1] = "idle" /\ ret[1] = "True") =>
        LET old == FindRecord(Records(disk0[1]), arg[1].filename)
            new == FindRecord(Records(disk), arg[1].filename)
        IN  (old # 0 /\ IsExtracted(Records(disk0[1])[old])) =>
                (new # 0 /\ IsExtracted(Records(disk)[new]))

\* C24 as stated: the attempts are made in the order of the candidate list,
\* none follows one that succeeded, a run that has ended after its set-up
\* has returned True exactly when an attempt succeeded, whatever the store
\* calls returned, and has returned False only after the whole list failed.
C24_PasswordLoop ==
    /\ \E n \in 0..Len(CandidatesOf(archive)) :
        TriedSoFar = SubSeq(CandidatesOf(archive), 1, n)
    /\ \A i \in Places("try") : log[i].ok => \A j \in Places("try") : j <= i
    /\ xpc = "loop" => TriedSoFar \o passwords_to_try = CandidatesOf(archive)
    /\ (RunEnded /\ Places("mkdir") # {}) =>
        /\ xret = "True" <=> \E i \in Places("try") : log[i].ok
        /\ xret = "False" => TriedSoFar = CandidatesOf(archive)

\* C26: a run on an archive that does not exist, or whose name has no
\* supported ending, returns False in its first step: it parses nothing,
\* makes no attempt and no directory, and leaves the store's state as it was.
C26_RejectedBeforeParse ==
    [][ (xpc = "idle" /\ (~archive'.exists \/ ~HasSupportedEnding(archive'.name)))
        => /\ xpc' = "idle" /\ xret' = "False"
           /\ log' = <<>>
           /\ <<fname, archive_info, info_dict>>' = <<fname, archive_info, info_dict>>
           /\ storeVars' = storeVars ]_vars

\* C26 witness: the run on the archive named n.rar has returned False, the
\* store holding the record an earlier run wrote.
C26_Witness ==
    /\ RunEnded /\ xret = "False" /\ log = <<>>
    /\ archive.exists /\ ~HasSupportedEnding(archive.name)
    /\ Len(Records(disk)) = 1

====
